---- MODULE Spec2Model ----
(***************************************************************************)
(* Model of the go-stream pipeline engine (src/stream.go).                 *)
(*                                                                         *)
(* A caller wraps a collection with New, chains intermediate stages and    *)
(* invokes a terminal operation, which attaches a terminal sink and calls  *)
(* startOp.end() on the source to drive the pipeline.                      *)
(*                                                                         *)
(* src/stream.go holds the Stream/sink interfaces, baseStage, New,         *)
(* setStreamData, the chaining and terminal methods and startOp.  The      *)
(* stage constructor wrapSink and the concrete operator sinks (mapOp,      *)
(* limitOp, collectOp, ...) live in files that are not part of src/; they  *)
(* are modelled from the specification (sections 4.3 - 4.6).               *)
(***************************************************************************)
EXTENDS Integers, Sequences, FiniteSets, TLC

\* ------------------------------------------------------------------ bounds

\* Longest input collection handed to New.
MaxLen == 3

\* Largest number of stages (the source included) a run builds when every
\* Stream handle the caller holds may be used again (Spec).
MaxStages == 3

\* Largest number of stages (the source included) a run builds when the caller
\* chains on the stream the last chaining call returned (SpecFluent).
MaxChain == 4

\* Largest number of stages (the source included) a run builds when any handle
\* may be chained on but a single terminal call is made (SpecOnce).
MaxHandles == 4

\* Largest argument given to Limit.
MaxLimit == 1

\* Element values of the input collections.
Values == {1, 2}

\* ----------------------------------------------------------------- helpers

Min(a, b) == IF a < b THEN a ELSE b

RECURSIVE SeqsUpTo(_)
SeqsUpTo(n) ==
    IF n = 0 THEN {<< >>}
    ELSE LET shorter == SeqsUpTo(n - 1)
         IN  shorter \cup {Append(s, v) : s \in {t \in shorter : Len(t) = n - 1}, v \in Values}

RECURSIVE Sum(_)
Sum(s) == IF s = << >> THEN 0 ELSE s[1] + Sum(Tail(s))

\* The nil interface value: an absent value is the empty sequence, a present
\* value v is <<v>>.
Nil == << >>

\* ------------------------------------------------------------------- state

VARIABLES
    input,      \* the argument of the pending call of New (a reflect.Value)
    xs,         \* the elements of the collection New was given
    stages,     \* the stages built so far, by id; stage 1 is the startOp
    closed,     \* startOp.closed
    pc,         \* the caller's position
    drv,        \* b.startStage of the terminal call in progress (0: nil)
    cur,        \* the terminal sink of the terminal call in progress
    idx,        \* number of loop iterations startOp.end has completed
    broke,      \* the loop of startOp.end left through break
    trace,      \* messages startOp.end delivered to its downstream in this drive
    result,     \* value returned by the last terminal call
    err,        \* the panic that ended the program, "" if none
    drives      \* number of drives started (startOp.end past its closed check)

vars == <<input, xs, stages, closed, pc, drv, cur, idx, broke, trace, result, err, drives>>

\* ----------------------------------------------------------- input adapter

\* A value handed to New, as reflect sees it: ptr is the number of pointer
\* levels around it (0: the value itself), kind the kind of the value under the
\* pointers ("Invalid": nothing, the untyped nil or a nil pointer), items its
\* elements when it is a slice or an array.
Inputs ==
    [ptr : 0..2, kind : {"Slice", "Array"}, items : SeqsUpTo(MaxLen)]
    \cup [ptr : 0..2, kind : {"Int", "Invalid"}, items : {<< >>}]

\* reflect.Value.Kind
Kind(v) == IF v.ptr > 0 THEN "Ptr" ELSE v.kind

\* reflect.Value.Elem
Elem(v) == [v EXCEPT !.ptr = @ - 1]

\* setStreamData with the copy loop starting one element late.
setStreamData_SkipFirst(v) ==
    LET arrValue == IF Kind(v) = "Ptr" THEN Elem(v) ELSE v
    IN  IF Kind(arrValue) \in {"Slice", "Array"}
        THEN [ok |-> TRUE,
              data |-> [i \in 1..(Len(arrValue.items) - 1) |-> arrValue.items[i + 1]]]
        ELSE [ok |-> FALSE, data |-> << >>]

\* setStreamData without the dereference of a pointer argument.
setStreamData_NoDeref(v) ==
    IF Kind(v) \in {"Slice", "Array"}
    THEN [ok |-> TRUE, data |-> [i \in 1..Len(v.items) |-> v.items[i]]]
    ELSE [ok |-> FALSE, data |-> << >>]

\* setStreamData: the data the source holds, or the panic.
setStreamData(v) ==
    LET arrValue == IF Kind(v) = "Ptr" THEN Elem(v) ELSE v
    IN  IF Kind(arrValue) \in {"Slice", "Array"}
        THEN [ok |-> TRUE,
              data |-> [i \in 1..Len(arrValue.items) |-> arrValue.items[i]]]
        ELSE [ok |-> FALSE, data |-> << >>]

\* The argument slot once New has returned.
NoInput == [ptr |-> 0, kind |-> "Invalid", items |-> << >>]

NotACollection == "data provides to Stream must be Array or Slice"
PipelineClosed == "stream already closed"
NilDereference == "invalid memory address or nil pointer dereference"

\* ------------------------------------------------------------------ stages

IntermediateOps == {"map", "limit", "parallel"}
TerminalOps == {"collect", "count", "max", "min", "first", "last", "foreach", "reduce"}

NewStage(kind, start, par, n) ==
    [kind |-> kind, startStage |-> start, downStream |-> 0, paralleled |-> par,
     n |-> n, count |-> 0, val |-> Nil, data |-> << >>, log |-> << >>,
     up |-> 0]

\* New without the assignment stream.startStage = stream.
NewStartOp_NoStartStage(data) ==
    [NewStage("start", 0, FALSE, 0) EXCEPT !.data = data]

\* New, after setStreamData: the startOp, its startStage pointing to itself.
NewStartOp(data) ==
    [NewStage("start", 1, FALSE, 0) EXCEPT !.data = data]

\* setNextSink with receiver and argument swapped.
setNextSink_Reversed(st, b, s) == [st EXCEPT ![s].downStream = b]

\* setNextSink that leaves a downstream already set in place.
setNextSink_KeepFirst(st, b, s) ==
    IF st[b].downStream = 0 THEN [st EXCEPT ![b].downStream = s] ELSE st

\* baseStage.setNextSink
setNextSink(st, b, s) == [st EXCEPT ![b].downStream = s]

\* wrapSink(parent, op, args): the new stage inherits the parent's startStage
\* and parallel flag and becomes the parent's downstream; Parallel flags the
\* pipeline.  up records the stage the new one was attached to (the code
\* keeps no such pointer).
wrapSink(st, b, op, n) ==
    LET id == Len(st) + 1
        start == st[b].startStage
        par == IF op = "parallel" THEN TRUE ELSE st[b].paralleled
        new == [NewStage(op, start, par, n) EXCEPT !.up = b]
        st1 == setNextSink(Append(st, new), b, id)
    IN  IF op = "parallel" /\ start # 0
        THEN [st1 EXCEPT ![start].paralleled = TRUE]
        ELSE st1

Msg(m, v) == [m |-> m, v |-> v]

\* The mapper callback used by Map stages.
MapFunc(v) == v + 1

RECURSIVE Begin(_, _, _), Accept(_, _, _), End(_, _)

\* baseStage.accept handing the element to the downstream twice.
baseAccept_Twice(st, s, t) ==
    IF st[s].downStream # 0
    THEN Accept(Accept(st, st[s].downStream, t), st[s].downStream, t)
    ELSE st

\* baseStage.begin / accept / end: forward to the downstream when there is one.
baseBegin(st, s, size) ==
    IF st[s].downStream # 0 THEN Begin(st, st[s].downStream, size) ELSE st

baseAccept(st, s, t) ==
    IF st[s].downStream # 0 THEN Accept(st, st[s].downStream, t) ELSE st

baseEnd(st, s) ==
    IF st[s].downStream # 0 THEN End(st, st[s].downStream) ELSE st

\* baseStage.cancellationRequested
baseCancellationRequested(st, s) == FALSE

\* Stage s receives begin(size).
Begin(st, s, size) ==
    LET got == [st EXCEPT ![s].log = Append(@, Msg("begin", size))]
        k == st[s].kind
    IN  CASE k = "limit" -> baseBegin(got, s, Min(size, st[s].n))
          [] k \in {"collect", "reduce"} -> [got EXCEPT ![s].data = << >>]
          [] OTHER -> baseBegin(got, s, size)

\* Stage s receives accept(v).
Accept(st, s, v) ==
    LET got == [st EXCEPT ![s].log = Append(@, Msg("accept", v))]
        k == st[s].kind
        c == st[s].count + 1
    IN  CASE k = "map" -> baseAccept([got EXCEPT ![s].count = c], s, MapFunc(v))
          [] k = "limit" ->
                IF c <= st[s].n
                THEN baseAccept([got EXCEPT ![s].count = c], s, v)
                ELSE [got EXCEPT ![s].count = c]
          [] k \in {"collect", "reduce"} -> [got EXCEPT ![s].data = Append(@, v)]
          [] k \in {"count", "foreach"} -> [got EXCEPT ![s].count = c]
          [] k = "max" ->
                IF st[s].val = Nil \/ v > st[s].val[1]
                THEN [got EXCEPT ![s].val = <<v>>] ELSE got
          [] k = "min" ->
                IF st[s].val = Nil \/ v < st[s].val[1]
                THEN [got EXCEPT ![s].val = <<v>>] ELSE got
          [] k = "first" ->
                IF st[s].count = 0
                THEN [got EXCEPT ![s].val = <<v>>, ![s].count = 1] ELSE got
          [] k = "last" -> [got EXCEPT ![s].val = <<v>>]
          [] OTHER -> baseAccept(got, s, v)

\* Stage s receives end().
End(st, s) ==
    LET got == [st EXCEPT ![s].log = Append(@, Msg("end", 0))]
        k == st[s].kind
    IN  CASE k = "reduce" -> [got EXCEPT ![s].val = <<Sum(st[s].data)>>]
          [] OTHER -> baseEnd(got, s)

\* s.cancellationRequested(): Limit and First override the default.
cancellationRequested(st, s) ==
    CASE st[s].kind = "limit" -> st[s].count >= st[s].n
      [] st[s].kind = "first" -> st[s].count > 0
      [] OTHER -> baseCancellationRequested(st, s)

\* The terminal methods returning a zero value where the sink holds nil.
Result_ZeroValue(st, d) ==
    LET k == st[d].kind
    IN  [op |-> k,
         value |-> CASE k \in {"max", "min", "first", "last"} ->
                            IF st[d].val = Nil THEN <<0>> ELSE st[d].val
                     [] k = "collect" -> st[d].data
                     [] k = "count" -> <<st[d].count>>
                     [] OTHER -> Nil]

\* What a terminal method returns from its sink after the drive.
Result(st, d) ==
    LET k == st[d].kind
    IN  [op |-> k,
         value |-> CASE k \in {"max", "min", "first", "last"} -> st[d].val
                     [] k = "collect" -> st[d].data
                     [] k = "count" -> <<st[d].count>>
                     [] OTHER -> Nil]

NoResult == [op |-> "none", value |-> Nil]

\* ----------------------------------------------------------------- actions

Init ==
    /\ input \in Inputs
    /\ xs = << >>
    /\ stages = << >>
    /\ closed = FALSE
    /\ pc = "new"
    /\ drv = 0
    /\ cur = 0
    /\ idx = 0
    /\ broke = FALSE
    /\ trace = << >>
    /\ result = NoResult
    /\ err = ""
    /\ drives = 0

\* New(data): setStreamData, then stream.startStage = stream.
New ==
    /\ pc = "new"
    /\ LET r == setStreamData(input)
       IN  IF r.ok
           THEN /\ stages' = <<NewStartOp(r.data)>>
                /\ xs' = input.items
                /\ input' = NoInput
                /\ pc' = "idle"
                /\ err' = err
           ELSE /\ stages' = stages
                /\ pc' = "panic"
                /\ err' = NotACollection
                /\ UNCHANGED <<input, xs>>
    /\ UNCHANGED <<closed, drv, cur, idx, broke, trace, result, drives>>

\* b.Map(f), b.Limit(n), b.Parallel(): wrapSink(b, op, args).
Chain(b, op, n) ==
    /\ pc = "idle"
    /\ stages[b].kind \notin TerminalOps
    /\ stages' = wrapSink(stages, b, op, n)
    /\ UNCHANGED <<input, xs, closed, pc, drv, cur, idx, broke, trace, result, err, drives>>

\* A terminal method reading its sink's field right after attaching it.
Terminal_ReadBeforeDrive(b, op) ==
    /\ pc = "idle"
    /\ stages[b].kind \notin TerminalOps
    /\ stages' = wrapSink(stages, b, op, 0)
    /\ cur' = Len(stages) + 1
    /\ drv' = stages[b].startStage
    /\ pc' = "drive"
    /\ result' = Result(stages', cur')
    /\ UNCHANGED <<input, xs, closed, idx, broke, trace, err, drives>>

\* b.Collect(), b.Count(), ...: downStream := wrapSink(b, op); the call of
\* b.startStage.end() comes next.
Terminal(b, op) ==
    /\ pc = "idle"
    /\ stages[b].kind \notin TerminalOps
    /\ stages' = wrapSink(stages, b, op, 0)
    /\ cur' = Len(stages) + 1
    /\ drv' = stages[b].startStage
    /\ pc' = "drive"
    /\ result' = NoResult
    /\ UNCHANGED <<input, xs, closed, idx, broke, trace, err, drives>>

Deliver(m, v) == [m |-> m, v |-> v, by |-> "caller"]

\* startOp.end announcing one element fewer than the source holds.
DriveBegin_OffByOne ==
    /\ pc = "drive"
    /\ IF drv = 0 \/ stages[drv].downStream = 0
       THEN /\ pc' = "panic"
            /\ err' = NilDereference
            /\ UNCHANGED <<stages, idx, broke, trace, drives>>
       ELSE IF closed
       THEN /\ pc' = "panic"
            /\ err' = PipelineClosed
            /\ UNCHANGED <<stages, idx, broke, trace, drives>>
       ELSE /\ stages' = Begin(stages, stages[drv].downStream, Len(stages[drv].data) - 1)
            /\ trace' = <<Deliver("begin", Len(stages[drv].data) - 1)>>
            /\ idx' = 0
            /\ broke' = FALSE
            /\ drives' = drives + 1
            /\ pc' = "loop"
            /\ err' = err
    /\ UNCHANGED <<input, xs, closed, drv, cur, result>>

\* startOp.end, to the loop: the closed check and begin(len(data)).
DriveBegin ==
    /\ pc = "drive"
    /\ IF drv = 0 \/ stages[drv].downStream = 0
       THEN /\ pc' = "panic"
            /\ err' = NilDereference
            /\ UNCHANGED <<stages, idx, broke, trace, drives>>
       ELSE IF closed
       THEN /\ pc' = "panic"
            /\ err' = PipelineClosed
            /\ UNCHANGED <<stages, idx, broke, trace, drives>>
       ELSE /\ stages' = Begin(stages, stages[drv].downStream, Len(stages[drv].data))
            /\ trace' = <<Deliver("begin", Len(stages[drv].data))>>
            /\ idx' = 0
            /\ broke' = FALSE
            /\ drives' = drives + 1
            /\ pc' = "loop"
            /\ err' = err
    /\ UNCHANGED <<input, xs, closed, drv, cur, result>>

\* The loop of startOp.end walking the data from its last element down.
DriveAccept_Descending ==
    /\ pc = "loop"
    /\ ~broke
    /\ idx < Len(stages[drv].data)
    /\ LET v == stages[drv].data[Len(stages[drv].data) - idx]
           st1 == Accept(stages, stages[drv].downStream, v)
       IN  /\ stages' = st1
           /\ trace' = Append(trace, Deliver("accept", v))
           /\ idx' = idx + 1
           /\ broke' = cancellationRequested(st1, stages[drv].downStream)
    /\ UNCHANGED <<input, xs, closed, pc, drv, cur, result, err, drives>>

\* The loop of startOp.end polling before the accept, not after it.
DriveAccept_PollFirst ==
    /\ pc = "loop"
    /\ ~broke
    /\ idx < Len(stages[drv].data)
    /\ IF cancellationRequested(stages, stages[drv].downStream)
       THEN /\ broke' = TRUE
            /\ UNCHANGED <<stages, trace, idx>>
       ELSE LET v == stages[drv].data[idx + 1]
            IN  /\ stages' = Accept(stages, stages[drv].downStream, v)
                /\ trace' = Append(trace, Deliver("accept", v))
                /\ idx' = idx + 1
                /\ broke' = FALSE
    /\ UNCHANGED <<input, xs, closed, pc, drv, cur, result, err, drives>>

\* One iteration of the loop of startOp.end: accept(data[idx]), then the poll
\* of the downstream's cancellationRequested().
DriveAccept ==
    /\ pc = "loop"
    /\ ~broke
    /\ idx < Len(stages[drv].data)
    /\ LET v == stages[drv].data[idx + 1]
           st1 == Accept(stages, stages[drv].downStream, v)
       IN  /\ stages' = st1
           /\ trace' = Append(trace, Deliver("accept", v))
           /\ idx' = idx + 1
           /\ broke' = cancellationRequested(st1, stages[drv].downStream)
    /\ UNCHANGED <<input, xs, closed, pc, drv, cur, result, err, drives>>

\* startOp.end leaving through return, not break, on cancellation.
DriveEnd_ReturnOnCancel ==
    /\ pc = "loop"
    /\ broke \/ idx = Len(stages[drv].data)
    /\ IF broke
       THEN UNCHANGED <<stages, trace>>
       ELSE /\ stages' = End(stages, stages[drv].downStream)
            /\ trace' = Append(trace, Deliver("end", 0))
    /\ pc' = "read"
    /\ UNCHANGED <<input, xs, closed, drv, cur, idx, broke, result, err, drives>>

\* startOp.end, after the loop: end() to the downstream, and return.
DriveEnd ==
    /\ pc = "loop"
    /\ broke \/ idx = Len(stages[drv].data)
    /\ stages' = End(stages, stages[drv].downStream)
    /\ trace' = Append(trace, Deliver("end", 0))
    /\ pc' = "read"
    /\ UNCHANGED <<input, xs, closed, drv, cur, idx, broke, result, err, drives>>

\* The terminal method returns what its sink holds.
Return ==
    /\ pc = "read"
    /\ result' = Result(stages, cur)
    /\ pc' = "idle"
    /\ UNCHANGED <<input, xs, stages, closed, drv, cur, idx, broke, trace, err, drives>>

LimitArgs(op) == IF op = "limit" THEN 0..MaxLimit ELSE {0}

\* The caller holds every Stream a call returned and may call any method on
\* any of them.
Next ==
    \/ New
    \/ \E b \in 1..Len(stages), op \in IntermediateOps :
          \E n \in LimitArgs(op) : Len(stages) < MaxStages /\ Chain(b, op, n)
    \/ \E b \in 1..Len(stages), op \in TerminalOps :
          Len(stages) < MaxStages /\ Terminal(b, op)
    \/ DriveBegin
    \/ DriveAccept
    \/ DriveEnd
    \/ Return

Spec == Init /\ [][Next]_vars

\* The stream the last chaining call returned (the source when none was made).
TailStage == CHOOSE b \in 1..Len(stages) :
            /\ stages[b].kind \notin TerminalOps
            /\ \A c \in 1..Len(stages) : stages[c].kind \notin TerminalOps => c <= b

\* Fluent use: New(xs).Map(f).Limit(k)...Collect(), every call made on the
\* stream the previous chaining call returned.
NextFluent ==
    \/ New
    \/ \E op \in IntermediateOps :
          \E n \in LimitArgs(op) : Len(stages) < MaxChain /\ Chain(TailStage, op, n)
    \/ \E op \in TerminalOps : Len(stages) < MaxChain /\ Terminal(TailStage, op)
    \/ DriveBegin
    \/ DriveAccept
    \/ DriveEnd
    \/ Return

SpecFluent == Init /\ [][NextFluent]_vars

\* One pipeline, one evaluation: the caller chains from any stream a call has
\* returned, then makes a single terminal call. Limit is called with 0, the
\* argument that cuts every drive of a non-empty input short.
NextOnce ==
    \/ New
    \/ \E b \in 1..Len(stages), op \in IntermediateOps :
          cur = 0 /\ Len(stages) < MaxHandles /\ Chain(b, op, 0)
    \/ \E b \in 1..Len(stages), op \in TerminalOps :
          cur = 0 /\ Len(stages) < MaxHandles /\ Terminal(b, op)
    \/ DriveBegin
    \/ DriveAccept
    \/ DriveEnd
    \/ Return

SpecOnce == Init /\ [][NextOnce]_vars

\* ------------------------------------------------------------------ claims

Ids == 1..Len(stages)

\* startOp.end is between its begin and its return.
Driving == pc \in {"loop", "read"}

\* startOp.end has returned from the latest drive.
DriveDone == pc = "read" \/ (pc \in {"idle", "drive"} /\ drives > 0)

\* The values of the accepts the source delivered in this drive, in order.
Accepted ==
    LET a == SelectSeq(trace, LAMBDA e : e.m = "accept")
    IN  [i \in 1..Len(a) |-> a[i].v]

\* The last messages the source's downstream received are those of the trace.
TraceReceived ==
    LET log == stages[stages[drv].downStream].log
        k == Len(trace)
    IN  /\ Len(log) >= k
        /\ \A i \in 1..k : log[Len(log) - k + i] = Msg(trace[i].m, trace[i].v)

NoParallelStage == \A s \in Ids : stages[s].kind # "parallel"

\* C1: a pipeline is single-use: once startOp.end has returned from a drive the
\* source is marked closed, and no later terminal call drives it again (the
\* call panics with "stream already closed").
C1_SingleUse ==
    /\ DriveDone => closed
    /\ drives <= 1

\* C2: the messages a drive delivers to the source's downstream are begin,
\* accept*, end: one begin before any accept, one end after the last accept
\* (also when the loop stopped on cancellation), nothing after end.
C2_Framing ==
    /\ pc = "loop" =>
          /\ Len(trace) >= 1
          /\ trace[1].m = "begin"
          /\ \A i \in 2..Len(trace) : trace[i].m = "accept"
          /\ TraceReceived
    /\ DriveDone =>
          /\ Len(trace) >= 2
          /\ trace[1].m = "begin"
          /\ trace[Len(trace)].m = "end"
          /\ \A i \in 2..(Len(trace) - 1) : trace[i].m = "accept"
    /\ pc = "read" => TraceReceived

\* A drive that cancellation cut short has returned.
C2_CancelledDriveEnded ==
    /\ pc = "read"
    /\ broke
    /\ idx < Len(stages[drv].data)
    /\ Len(trace) = idx + 2

\* C3: a stage that does not override cancellationRequested (every stage but
\* Limit and First) reports what its downstream reports.
C3_CancelPropagates ==
    \A s \in Ids :
        (stages[s].kind \notin {"limit", "first"} /\ stages[s].downStream # 0)
            => cancellationRequested(stages, s)
                 = cancellationRequested(stages, stages[s].downStream)

\* C4: in source -> Map(f) -> Limit(k) -> terminal the mapper runs at most
\* k + 1 times in a drive.
C4_MapperBound ==
    \A m \in Ids, l \in Ids :
        (/\ drives = 1
         /\ stages[1].downStream = m /\ stages[m].kind = "map"
         /\ stages[m].downStream = l /\ stages[l].kind = "limit"
         /\ stages[l].downStream # 0
         /\ stages[stages[l].downStream].kind \in TerminalOps)
            => stages[m].count <= stages[l].n + 1

\* C5: without a Parallel stage the values the source has delivered are a
\* prefix of the input, in input order, and the whole input once the drive has
\* returned and the downstream never requested cancellation.
C5_SourceOrder ==
    (Driving /\ NoParallelStage) =>
        /\ Len(Accepted) <= Len(xs)
        /\ Accepted = SubSeq(xs, 1, Len(Accepted))
        /\ (pc = "read" /\ ~cancellationRequested(stages, stages[drv].downStream))
              => Accepted = xs

\* A sequential drive has delivered a whole input of distinct elements.
C5_WholeInputDelivered ==
    /\ pc = "read"
    /\ NoParallelStage
    /\ Len(xs) >= 2
    /\ xs[1] # xs[2]
    /\ Accepted = xs

\* C6: when a Parallel stage was chained, the accepts of a drive are dispatched
\* to workers: none is delivered by the goroutine that called the terminal
\* operation.
C6_ParallelDispatch ==
    (Driving /\ ~NoParallelStage /\ stages[drv].paralleled) =>
        \A i \in 1..Len(trace) : trace[i].m = "accept" => trace[i].by # "caller"

\* C7: Collect called on the stream New returned (no intermediate stage)
\* returns the elements New was given, in their order.
C7_CollectIdentity ==
    (pc = "idle" /\ result.op = "collect" /\ stages[1].downStream = cur)
        => result.value = xs

\* Collect on the source has returned an input of distinct elements.
C7_CollectedInput ==
    /\ pc = "idle"
    /\ result.op = "collect"
    /\ stages[1].downStream = cur
    /\ Len(xs) >= 2
    /\ xs[1] # xs[2]

\* C8: on an empty input a drive delivers begin(0) and then end, nothing in
\* between, and First, Last, Max and Min return nil.
C8_EmptyInput ==
    (Len(stages) >= 1 /\ xs = << >>) =>
        /\ pc = "loop" =>
              /\ Len(trace) = 1
              /\ trace[1].m = "begin" /\ trace[1].v = 0
        /\ DriveDone =>
              /\ Len(trace) = 2
              /\ trace[1].m = "begin" /\ trace[1].v = 0
              /\ trace[2].m = "end"
        /\ (pc = "idle" /\ result.op \in {"first", "last", "max", "min"})
              => result.value = Nil

\* Max has returned from a drive over an empty input.
C8_EmptyMaxReturned ==
    /\ Len(stages) >= 1
    /\ xs = << >>
    /\ pc = "idle"
    /\ result.op = "max"
    /\ Len(trace) = 2

\* A slice or an array, or a pointer to one.
IsOrderedContainer(v) == v.kind \in {"Slice", "Array"} /\ v.ptr <= 1

\* C9: New given anything but a slice, an array or a pointer to one panics with
\* the not-a-collection message and builds no stream; given one of those, the
\* source holds exactly its elements in its order.
C9_Construction ==
    [][pc = "new" =>
        IF IsOrderedContainer(input)
        THEN /\ pc' = "idle"
             /\ err' = ""
             /\ Len(stages') = 1
             /\ stages'[1].kind = "start"
             /\ stages'[1].data = input.items
        ELSE /\ pc' = "panic"
             /\ err' = NotACollection
             /\ stages' = << >>]_vars

\* New has rejected a pointer to a scalar.
C9_PointerToScalarRejected ==
    /\ pc = "panic"
    /\ err = NotACollection
    /\ input.kind = "Int"
    /\ input.ptr = 1
    /\ stages = << >>

\* C10: a pipeline has exactly one source, every stage's startStage (the
\* source's included) points to it, and a terminal call on any stage drives it.
C10_OneSource ==
    Len(stages) >= 1 =>
        /\ Cardinality({s \in Ids : stages[s].kind = "start"}) = 1
        /\ \A s \in Ids :
              /\ stages[s].startStage \in Ids
              /\ stages[stages[s].startStage].kind = "start"
        /\ pc \in {"drive", "loop", "read"} =>
              /\ drv \in Ids
              /\ stages[drv].kind = "start"

\* A terminal call made on a chained stage is driving the source.
C10_DriveFromChainedStage ==
    /\ pc = "loop"
    /\ Len(stages) = 3
    /\ stages[2].kind \in IntermediateOps
    /\ stages[2].downStream = 3
    /\ drv = 1

\* Following downStream links from s ends at nil within k steps.
RECURSIVE EndsWithin(_, _)
EndsWithin(s, k) ==
    IF s = 0 THEN TRUE
    ELSE IF k = 0 THEN FALSE
    ELSE EndsWithin(stages[s].downStream, k - 1)

\* C11: the downstream links form linear chains: a link leads to a stage that
\* exists, no stage is the downstream of two stages, and no walk along the
\* links comes back to a stage it has left.
C11_LinearChain ==
    \A s \in Ids :
        LET d == stages[s].downStream
        IN  /\ d = 0 \/ d \in Ids
            /\ d # 0 => \A t \in Ids : stages[t].downStream = d => t = s
            /\ EndsWithin(s, Len(stages))

\* A second stage was chained to a stage that already had a downstream.
C11_Rechained ==
    /\ Len(stages) = 3
    /\ stages[2].up = 1
    /\ stages[3].up = 1
    /\ stages[1].downStream = 3

\* C12: the size of the begin message of a drive is the number of elements
\* the source holds, cut short or not.
C12_BeginSize ==
    (Driving \/ DriveDone) =>
        /\ trace[1].m = "begin"
        /\ trace[1].v = Len(stages[drv].data)
        /\ trace[1].v = Len(xs)
        /\ pc = "read" =>
              LET log == stages[stages[drv].downStream].log
              IN  log[Len(log) - Len(trace) + 1] = Msg("begin", Len(xs))

\* A drive over three elements that cancellation stopped after the first.
C12_CutShortDrive ==
    /\ pc = "read"
    /\ Len(xs) = 3
    /\ idx = 1
    /\ trace[1].v = 3

C16_PollAfterAccept ==
    [][/\ (pc = "loop" /\ idx' = idx + 1) =>
             (idx = 0 \/ ~cancellationRequested(stages, stages[drv].downStream))
       /\ (pc = "loop" /\ pc' = "read") =>
             /\ idx' = idx
             /\ \/ idx = Len(stages[drv].data)
                \/ /\ idx >= 1
                   /\ cancellationRequested(stages, stages[drv].downStream)]_vars

\* A drive into Limit(0) has delivered the first of several elements and
\* stopped.
C16_FirstDeliveredToLimitZero ==
    /\ pc = "read"
    /\ Len(xs) >= 2
    /\ idx = 1
    /\ stages[stages[1].downStream].kind = "limit"
    /\ stages[stages[1].downStream].n = 0
    /\ Accepted = <<xs[1]>>

\* The stage most recently attached to b with wrapSink, 0 if there is none.
LatestAttached(st, b) ==
    LET kids == {d \in 1..Len(st) : st[d].up = b}
    IN  IF kids = {} THEN 0 ELSE CHOOSE d \in kids : \A e \in kids : e <= d

\* C17: attaching a stage to a parent that already has a downstream replaces
\* it: after every step each stage's downstream is the stage most recently
\* attached to it, and a stage that is no longer its parent's downstream
\* receives no message in any step.
C17_LastAttachedWins ==
    [][/\ \A b \in 1..Len(stages') :
             stages'[b].downStream = LatestAttached(stages', b)
       /\ \A d \in Ids :
             (stages[d].up # 0 /\ stages[stages[d].up].downStream # d) =>
                 stages'[d].log = stages[d].log]_vars

\* Two terminal stages were attached to the source one after the other and
\* each driven: the second drive reached only the later one.
C17_SecondDriveSkipsFirst ==
    /\ Len(stages) = 3
    /\ stages[2].up = 1
    /\ stages[3].up = 1
    /\ stages[1].downStream = 3
    /\ drives = 2
    /\ pc = "read"
    /\ Len(xs) >= 1
    /\ Len(stages[2].log) = Len(xs) + 2
    /\ Len(stages[3].log) = Len(xs) + 2

\* Stage t is reached from stage s by following at most k downstream links.
RECURSIVE Reaches(_, _, _)
Reaches(s, t, k) ==
    /\ s # 0
    /\ \/ s = t
       \/ k > 0 /\ Reaches(stages[s].downStream, t, k - 1)

\* C14 as stated: a terminal operation attaches its sink before the source
\* emits begin, and the value it returns is read from the sink only after the
\* source's end message has been delivered to that sink.
C14_ReadAfterSinkEnd ==
    /\ pc = "drive" =>
          /\ cur \in Ids
          /\ stages[stages[cur].up].downStream = cur
          /\ stages[cur].log = << >>
    /\ result.op # "none" =>
          /\ stages[cur].log # << >>
          /\ stages[cur].log[Len(stages[cur].log)].m = "end"

\* C14, amended: a terminal operation attaches its sink to the stream it was
\* called on before the source emits begin, reads nothing while the drive is
\* under way, and reads the sink's field only after the source has emitted
\* end; that end has been delivered to the sink when the sink is reached from
\* the source by downstream links.
C14_AttachDriveRead ==
    /\ pc \in {"drive", "loop", "read"} =>
          /\ cur \in Ids
          /\ stages[cur].kind \in TerminalOps
          /\ stages[stages[cur].up].downStream = cur
          /\ result = NoResult
    /\ pc = "drive" => (stages[cur].log = << >> /\ trace = << >>)
    /\ result.op # "none" =>
          /\ pc = "idle"
          /\ trace # << >>
          /\ trace[Len(trace)].m = "end"
          /\ result = Result(stages, cur)
          /\ Reaches(drv, cur, Len(stages)) =>
                /\ stages[cur].log # << >>
                /\ stages[cur].log[Len(stages[cur].log)].m = "end"

\* A terminal method was called on a stream whose parent has been chained on
\* again: the drive completed without reaching the terminal sink and the
\* method returned what the untouched sink held.
C14_StaleHandleRead ==
    /\ pc = "idle"
    /\ result.op # "none"
    /\ Len(xs) >= 1
    /\ trace[Len(trace)].m = "end"
    /\ ~Reaches(drv, cur, Len(stages))
    /\ stages[cur].log = << >>

\* The messages stage p received in the current step.
NewLog(p) == SubSeq(stages'[p].log, Len(stages[p].log) + 1, Len(stages'[p].log))

\* C15: a stage with the default sink behaviour (the Parallel marker) hands
\* every message it receives to its downstream once, unchanged and in order,
\* and keeps its own fields; with no downstream the message is dropped and no
\* error is raised.
C15_TransparentForwarder ==
    [][\A p \in Ids : stages[p].kind = "parallel" =>
          LET d == stages[p].downStream
          IN  /\ NewLog(p) # << >> =>
                    [stages'[p] EXCEPT !.log = stages[p].log] = stages[p]
              /\ d # 0 => NewLog(d) = NewLog(p)
              /\ (d = 0 /\ NewLog(p) # << >>) => (pc' # "panic" /\ err' = err)]_vars

\* A Parallel marker with a downstream has seen a whole drive of several
\* elements and its downstream has received the same messages.
C15_MarkerForwarded ==
    /\ pc = "read"
    /\ Len(xs) >= 2
    /\ \E p \in Ids :
          /\ stages[p].kind = "parallel"
          /\ stages[p].downStream # 0
          /\ Len(stages[p].log) = Len(xs) + 2
          /\ stages[stages[p].downStream].log = stages[p].log

\* A Parallel marker without a downstream has received a whole drive.
C15_MarkerDropped ==
    /\ pc = "read"
    /\ Len(xs) >= 2
    /\ \E p \in Ids :
          /\ stages[p].kind = "parallel"
          /\ stages[p].downStream = 0
          /\ Len(stages[p].log) = Len(xs) + 2

====
